---- MODULE Spec2Model ----
(***************************************************************************)
(* Model of src/js/main.js (the App object): the fragment loader, the      *)
(* client-side router (click and popstate listeners), handlePageLoad and   *)
(* the page widgets it initialises: the testimonial carousel, the          *)
(* inscription modal and the FAQ accordion.                                *)
(*                                                                         *)
(* Strings that the code concatenates or that the browser parses (paths,   *)
(* queries, fragments, titles) are sequences of one-character strings, so  *)
(* that pathname + search and the parsing done by pushState are computed.  *)
(* Markup is a record of what the code and the claims look at: a heading,  *)
(* the page it renders, the hrefs of its links and the element ids in it.  *)
(*                                                                         *)
(* Not modelled: scroll position, the IntersectionObserver widgets (fade   *)
(* in, statistics counter), the reservation and contact forms, the         *)
(* browser's own default action for a click the listener lets through      *)
(* (it leaves the document or scrolls), and a document without the two     *)
(* placeholder elements.                                                   *)
(***************************************************************************)
EXTENDS Integers, Sequences, FiniteSets, TLC

VARIABLES
    compStage,   \* loadComponents: per fragment, the await its load() is at
    ready,       \* the .then callback of init() has run (listeners attached)
    mainPresent, \* the live document has an element #main-content
    header,      \* #header-placeholder: [loaded, links]
    footer,      \* #footer-placeholder: [loaded, links]
    html,        \* #main-content innerHTML
    fadeOut,     \* #main-content carries the class page-fade-out
    title,       \* document.title
    location,    \* window.location
    history,     \* the session history entries of this document
    histIdx,     \* the current entry
    tasks,       \* handlePageLoad calls suspended at an await
    calls,       \* log: every handlePageLoad invocation, in call order
    lastDone,    \* log: the handlePageLoad call that settled last, and how
    lastEvent,   \* log: the last DOM event dispatched and what its listener did
    nEvents,     \* number of DOM events dispatched so far
    initLog,     \* log: what the .then callback of init() has called, in order
    widgets,     \* the page widgets: carousels, timers, modal, FAQ accordion
    nWidgetEvents \* number of widget events (clicks, hovers) dispatched so far

vars == <<compStage, ready, mainPresent, header, footer, html, fadeOut, title,
          location, history, histIdx, tasks, calls, lastDone, lastEvent, nEvents,
          initLog, widgets, nWidgetEvents>>

\* Bound on the number of click / popstate events of a run.
MaxEvents == 2

\* The number of widget events (clicks, hovers, interval ticks) in a behaviour.
MaxWidgetEvents == 3

----------------------------------------------------------------------------
(* Strings *)

Empty == <<>>
Slash == <<"/">>
PathA == <<"/", "a">>
QueryQ == <<"?", "q">>
FragS == <<"#", "s">>
Undefined == <<"undefined">>

OwnProtocol == "https:"
OwnHost == "site.example"

\* Position of the first c in s, 0 when there is none.
IndexOf(s, c) ==
    IF \E i \in 1..Len(s) : s[i] = c
    THEN CHOOSE i \in 1..Len(s) : s[i] = c /\ \A j \in 1..(i - 1) : s[j] # c
    ELSE 0

\* The URL record the browser makes of a root-relative URL string given to
\* pushState: split at the first "#", then at the first "?"; an empty query
\* ("?") or fragment ("#") reads back as the empty string.
parseUrl(str, loc) ==
    LET h == IndexOf(str, "#")
        beforeHash == IF h = 0 THEN str ELSE SubSeq(str, 1, h - 1)
        frag == IF h = 0 THEN Empty ELSE SubSeq(str, h, Len(str))
        q == IndexOf(beforeHash, "?")
        path == IF q = 0 THEN beforeHash ELSE SubSeq(beforeHash, 1, q - 1)
        query == IF q = 0 THEN Empty ELSE SubSeq(beforeHash, q, Len(beforeHash))
    IN  [protocol |-> loc.protocol, host |-> loc.host, pathname |-> path,
         search |-> IF Len(query) <= 1 THEN Empty ELSE query,
         hash |-> IF Len(frag) <= 1 THEN Empty ELSE frag]

\* window.location.pathname + window.location.search
locationPath(loc) == loc.pathname \o loc.search

----------------------------------------------------------------------------
(* Markup and documents *)

Markup(heading, page, hrefs, ids) ==
    [heading |-> heading, page |-> page, hrefs |-> hrefs, ids |-> ids]

\* What #main-content holds in the shell page before the first navigation.
InitialMarkup == Markup("shell", Empty, {}, {})

\* The literal of the catch block of handlePageLoad.
Fallback == Markup("Erreur 404", Empty, {Slash}, {})

ShellTitle == <<"T", "0">>

\* The bodies a server can answer an ok response with, for the path asked:
\* a page with no widgets, a page with the whole inscription modal, a page
\* whose modal has no #close-modal-btn, a document without #main-content.
Bodies == {"plain", "modal", "noclose", "nomain"}

docTitle(path, body) == <<"T">> \o path

docHasMain(body) == body # "nomain"

docMain(path, body) ==
    Markup("page", path, {},
           CASE body = "modal" -> {"inscription-modal", "open-modal-btn", "close-modal-btn"}
             [] body = "noclose" -> {"inscription-modal", "open-modal-btn"}
             [] body = "carousel" -> {"testimonial-carousel", "testimonial-dots",
                                      "next-testimonial", "prev-testimonial"}
             [] body = "nodots" -> {"testimonial-carousel",
                                    "next-testimonial", "prev-testimonial"}
             [] body = "faq" -> {"faq-accordion"}
             [] OTHER -> {})

\* Bodies of pages with widgets: the testimonial carousel with and without
\* #testimonial-dots, the inscription modal, the FAQ accordion.
WidgetBodies == {"carousel", "nodots", "modal", "faq"}

NavLink(p) == [pathname |-> p, active |-> FALSE]

EmptyPlaceholder == [loaded |-> FALSE, links |-> <<>>]
NavbarFragment == [loaded |-> TRUE, links |-> <<NavLink(Slash), NavLink(PathA)>>]
FooterFragment == [loaded |-> TRUE, links |-> <<NavLink(Slash)>>]

Components == {"navbar", "footer"}

----------------------------------------------------------------------------
(* Events *)

Link(t, pr, h, p, s, f) ==
    [target |-> t, protocol |-> pr, host |-> h, pathname |-> p, search |-> s, hash |-> f]

NullLink == Link("", "", "", Empty, Empty, Empty)

InSite(p, s, f) == Link("", OwnProtocol, OwnHost, p, s, f)

\* The links a click can land on: in-site links with and without a query and
\* a fragment, and one link for each way of being external.
Links ==
    {InSite(Slash, Empty, Empty), InSite(PathA, Empty, Empty), InSite(PathA, QueryQ, Empty),
     InSite(Slash, Empty, FragS), InSite(PathA, QueryQ, FragS),
     Link("_blank", OwnProtocol, OwnHost, PathA, Empty, Empty),
     Link("", "mailto:", "", PathA, Empty, Empty),
     Link("", OwnProtocol, "other.example", PathA, Empty, Empty)}

\* A click: on a link or not (closest('a') is null), with or without a
\* modifier key held.
Clicks ==
    {[hasLink |-> TRUE, link |-> l, modifier |-> FALSE] : l \in Links}
    \cup {[hasLink |-> TRUE, link |-> InSite(PathA, Empty, Empty), modifier |-> TRUE],
          [hasLink |-> FALSE, link |-> NullLink, modifier |-> FALSE]}

\* history.state values: null, an object without path, {path: p}.
NullState == [null |-> TRUE, hasPath |-> FALSE, path |-> Empty]
OtherState == [null |-> FALSE, hasPath |-> FALSE, path |-> Empty]
PathState(p) == [null |-> FALSE, hasPath |-> TRUE, path |-> p]

EventStates == {NullState, OtherState, PathState(PathA \o QueryQ)}

\* What a listener did, in program order.
Effect(op, arg, state) == [op |-> op, arg |-> arg, state |-> state]

NoEvent ==
    [kind |-> "none", click |-> [hasLink |-> FALSE, link |-> NullLink, modifier |-> FALSE],
     state |-> NullState, prevented |-> FALSE, trace |-> <<>>]

\* The calls of handlePageLoad that have settled.
doneIds == (1..Len(calls)) \ {t.id : t \in tasks}

\* How call id settled; stale: a call made after it had settled before it.
Done(id, fetch, body, result) ==
    [id |-> id, fetch |-> fetch, body |-> body, result |-> result,
     stale |-> \E j \in doneIds : j > id]

NoDone == [id |-> 0, fetch |-> "none", body |-> "none", result |-> "none", stale |-> FALSE]

----------------------------------------------------------------------------
(* setupRouter: the two listeners, as the effects they perform in order *)

\* Variant: the target attribute is not looked at.
isExternal_NoTarget(link, loc) ==
    link.protocol # loc.protocol \/ link.host # loc.host

isExternal(link, loc) ==
    link.target = "_blank" \/ link.protocol # loc.protocol \/ link.host # loc.host

isAnchor(link, loc) == link.hash # Empty /\ link.pathname = loc.pathname

\* Variant: the query string is left out of the path.
newPath_NoSearch(link) == link.pathname

newPath(link) == link.pathname \o link.search

\* Variant: the page load is started before the history entry is pushed.
clickListener_LoadBeforePush(ev, loc) ==
    IF ~ev.hasLink THEN <<>>
    ELSE IF isExternal(ev.link, loc) \/ isAnchor(ev.link, loc) THEN <<>>
    ELSE <<Effect("preventDefault", Empty, NullState)>>
         \o (IF newPath(ev.link) # locationPath(loc)
             THEN <<Effect("handlePageLoad", newPath(ev.link), NullState),
                    Effect("pushState", newPath(ev.link), PathState(newPath(ev.link)))>>
             ELSE <<>>)

\* The click listener on document.body.
clickListener(ev, loc) ==
    IF ~ev.hasLink THEN <<>>
    ELSE IF isExternal(ev.link, loc) \/ isAnchor(ev.link, loc) THEN <<>>
    ELSE <<Effect("preventDefault", Empty, NullState)>>
         \o (IF newPath(ev.link) # locationPath(loc)
             THEN <<Effect("pushState", newPath(ev.link), PathState(newPath(ev.link))),
                    Effect("handlePageLoad", newPath(ev.link), NullState)>>
             ELSE <<>>)

\* e.state && e.state.path: a missing path is undefined, an empty one is falsy.
statePath(state) == ~state.null /\ state.hasPath /\ state.path # Empty

\* Variant: only e.state is tested, and e.state.path is used as it is.
popstateListener_NoPathCheck(state, loc) ==
    IF ~state.null
    THEN <<Effect("handlePageLoad", IF state.hasPath THEN state.path ELSE Undefined,
                  NullState)>>
    ELSE <<>>

\* Variant: the page of the current location is loaded, not that of e.state.
popstateListener_UsesLocation(state, loc) ==
    IF statePath(state)
    THEN <<Effect("handlePageLoad", locationPath(loc), NullState)>>
    ELSE <<>>

\* The popstate listener on window.
popstateListener(state, loc) ==
    IF statePath(state)
    THEN <<Effect("handlePageLoad", state.path, NullState)>>
    ELSE <<>>

\* history.pushState(state, '', url): the entries after the current one are
\* dropped, the new entry becomes the current one and the location its URL.
pushState(w, state, url) ==
    [w EXCEPT !.history = Append(SubSeq(w.history, 1, w.histIdx),
                                 [state |-> state, url |-> parseUrl(url, w.location)]),
              !.histIdx = w.histIdx + 1,
              !.location = parseUrl(url, w.location)]

\* The effects of a listener applied in order to the window state w.
RECURSIVE Perform(_, _)
Perform(effs, w) ==
    IF effs = <<>> THEN w
    ELSE LET e == Head(effs)
         IN  Perform(Tail(effs),
                     CASE e.op = "preventDefault" -> [w EXCEPT !.prevented = TRUE]
                       [] e.op = "pushState" -> pushState(w, e.state, e.arg)
                       [] e.op = "handlePageLoad" -> [w EXCEPT !.loads = Append(@, e.arg)])

----------------------------------------------------------------------------
(* Page widgets *)

\* The page widgets are taken to live inside #main-content: replacing its
\* innerHTML detaches their elements, while the timers their closures set
\* stay scheduled.

\* The testimonials literal of initTestimonialCarousel has four records.
NumTestimonials == 4

PositionClasses == {"active", "prev", "next", "hidden-prev", "hidden-next"}

Abs(x) == IF x < 0 THEN 0 - x ELSE x

\* The class showTestimonial(index) adds to card i of n.
positionClass(i, index, n) ==
    IF i = index THEN "active"
    ELSE IF i = (index - 1 + n) % n THEN "prev"
    ELSE IF i = (index + 1) % n THEN "next"
    ELSE LET diff == index - i
             wrapped == IF 2 * Abs(diff) > n
                        THEN (IF diff > 0 THEN diff - n ELSE diff + n)
                        ELSE diff
         IN  IF wrapped > 0 THEN "hidden-prev" ELSE "hidden-next"

\* Variant: the position classes of the call before are not removed.
showTestimonial_KeepClasses(c, index) ==
    [c EXCEPT !.cards = [i \in DOMAIN @ |->
                            @[i] \cup {positionClass(i, index, NumTestimonials)}],
              !.dots = [i \in DOMAIN @ |->
                            IF i = index THEN @[i] \cup {"active"} ELSE @[i] \ {"active"}]]

\* showTestimonial(index) in the closure of carousel c.
showTestimonial(c, index) ==
    [c EXCEPT !.cards = [i \in DOMAIN @ |->
                            (@[i] \ PositionClasses)
                                \cup {positionClass(i, index, NumTestimonials)}],
              !.dots = [i \in DOMAIN @ |->
                            IF i = index THEN @[i] \cup {"active"} ELSE @[i] \ {"active"}]]

\* Variant: the index is decremented without adding cards.length first, so
\* the remainder keeps the sign of the dividend as % does in JavaScript.
prev_NoWrap(c) ==
    LET i == IF c.currentIndex = 0 THEN 0 - 1 ELSE c.currentIndex - 1
    IN  showTestimonial([c EXCEPT !.currentIndex = i], i)

next(c) ==
    LET i == (c.currentIndex + 1) % NumTestimonials
    IN  showTestimonial([c EXCEPT !.currentIndex = i], i)

prev(c) ==
    LET i == (c.currentIndex - 1 + NumTestimonials) % NumTestimonials
    IN  showTestimonial([c EXCEPT !.currentIndex = i], i)

\* clearInterval(autoScrollInterval): handleLive says whether the interval
\* the variable names is still scheduled, nActive counts the scheduled
\* intervals this closure has set.
clearInterval(c) ==
    IF c.handleLive
    THEN [c EXCEPT !.handleLive = FALSE, !.nActive = @ - 1]
    ELSE c

\* autoScrollInterval = setInterval(next, 5000)
startInterval(c) == [c EXCEPT !.handleLive = TRUE, !.nActive = @ + 1]

resetInterval(c) == startInterval(clearInterval(c))

mouseenterListener(c) == [clearInterval(c) EXCEPT !.hover = TRUE]

mouseleaveListener(c) == [startInterval(c) EXCEPT !.hover = FALSE]

dotClickListener(c, i) ==
    resetInterval(showTestimonial([c EXCEPT !.currentIndex = i], i))

\* The carousel initTestimonialCarousel builds: the cards and, with a
\* #testimonial-dots element, the dots; then showTestimonial(0) and
\* startInterval().
NewCarousel(hasDots) ==
    startInterval(showTestimonial(
        [attached |-> TRUE, hover |-> FALSE, currentIndex |-> 0,
         cards |-> [i \in 0..(NumTestimonials - 1) |-> {"testimonial-card"}],
         dots |-> [i \in (IF hasDots THEN 0..(NumTestimonials - 1) ELSE {}) |-> {"dot"}],
         handleLive |-> FALSE, nActive |-> 0], 0))

\* The delays of the timeouts of openModal and closeModal, in ms.
OpenDelay == 10
CloseDelay == 300

Delay(kind) == IF kind = "open" THEN OpenDelay ELSE CloseDelay

NoModal == [present |-> FALSE, classes |-> {}, panel |-> {}, lastAction |-> "none"]

\* #inscription-modal as the page brings it: hidden and faded out.
NewModal ==
    [present |-> TRUE, classes |-> {"hidden", "opacity-0"}, panel |-> {"scale-95"},
     lastAction |-> "none"]

\* The number of questions of the FAQ accordion of a page.
NumQuestions == 3

NoFaq == [present |-> FALSE, maxHeight |-> <<>>]

\* #faq-accordion as the page brings it: no answer has a max-height.
NewFaq == [present |-> TRUE, maxHeight |-> [i \in 1..NumQuestions |-> FALSE]]

NoWidgetEvent == [kind |-> "none", arg |-> 0]

NoWidgets ==
    [carousels |-> <<>>, modal |-> NoModal, bodyOverflow |-> "", timeouts |-> <<>>,
     faq |-> NoFaq, last |-> NoWidgetEvent]

\* mainContent.innerHTML is assigned: the widgets of the old content leave
\* the document; intervals and timeouts are not cancelled.
detach(w) ==
    [w EXCEPT !.carousels = [k \in DOMAIN @ |-> [@[k] EXCEPT !.attached = FALSE]],
              !.modal = NoModal,
              !.faq = NoFaq,
              !.timeouts = [j \in DOMAIN @ |-> [@[j] EXCEPT !.live = FALSE]]]

initTestimonialCarousel(w, markup) ==
    IF "testimonial-carousel" \notin markup.ids THEN w
    ELSE [w EXCEPT !.carousels = Append(@, NewCarousel("testimonial-dots" \in markup.ids))]

\* The inscription modal part of initFormHandlers, when it does not throw.
initFormHandlers(w, markup) ==
    IF {"inscription-modal", "open-modal-btn"} \subseteq markup.ids
    THEN [w EXCEPT !.modal = NewModal]
    ELSE w

initFaqAccordion(w, markup) ==
    IF "faq-accordion" \in markup.ids THEN [w EXCEPT !.faq = NewFaq] ELSE w

\* The widgets once a handlePageLoad call has settled: the container has
\* been overwritten, by the page or by the fallback, and on the way of the
\* page runPageSpecificScripts has run up to what it threw.
widgetsAfterLoad(w, path, fetch, body) ==
    LET old == detach(w)
        markup == docMain(path, body)
    IN  IF fetch # "ok" \/ body = "reject" \/ ~docHasMain(body) THEN old
        ELSE LET w1 == initTestimonialCarousel(old, markup)
             IN  IF {"inscription-modal", "open-modal-btn"} \subseteq markup.ids
                    /\ "close-modal-btn" \notin markup.ids
                 THEN detach(w1)
                 ELSE initFaqAccordion(initFormHandlers(w1, markup), markup)

----------------------------------------------------------------------------
(* handlePageLoad *)

Dom == [title |-> title, html |-> html, fadeOut |-> fadeOut,
        header |-> header, footer |-> footer]

\* initFormHandlers: with #inscription-modal and #open-modal-btn in the
\* document, closeBtn.addEventListener is called on whatever
\* getElementById('close-modal-btn') returned.
initFormHandlersThrows(markup) ==
    /\ {"inscription-modal", "open-modal-btn"} \subseteq markup.ids
    /\ "close-modal-btn" \notin markup.ids

runPageSpecificScriptsThrows(d) == initFormHandlersThrows(d.html)

\* Variant: the class is added where it applies and never removed.
markLinks_AddOnly(links, loc) ==
    [i \in DOMAIN links |->
        [links[i] EXCEPT !.active = (links[i].active \/ links[i].pathname = loc.pathname)]]

markLinks(links, loc) ==
    [i \in DOMAIN links |-> [links[i] EXCEPT !.active = (links[i].pathname = loc.pathname)]]

updateActiveLink(d, loc) ==
    [d EXCEPT !.header.links = markLinks(d.header.links, loc),
              !.footer.links = markLinks(d.footer.links, loc)]

\* Variant: the fallback is rendered and the fade-out class is left on.
catchBlock_KeepFade(d) == [d EXCEPT !.html = Fallback]

catchBlock(d) == [d EXCEPT !.html = Fallback, !.fadeOut = FALSE]

\* The try block from the parse on, once response.text() has resolved.
tryAfterText(path, body, d, loc) ==
    LET d1 == [d EXCEPT !.title = docTitle(path, body)]
    IN  IF ~docHasMain(body) THEN [threw |-> TRUE, dom |-> d1]
        ELSE LET d2 == [d1 EXCEPT !.html = docMain(path, body)]
             IN  IF runPageSpecificScriptsThrows(d2) THEN [threw |-> TRUE, dom |-> d2]
                 ELSE [threw |-> FALSE,
                       dom |-> [updateActiveLink(d2, loc) EXCEPT !.fadeOut = FALSE]]

\* Variant: the widget initialisation runs outside the try block, so what it
\* throws rejects the promise of handlePageLoad.
handlePageLoadSettle_Uncaught(path, fetch, body, d, loc) ==
    LET r == IF fetch # "ok" \/ body = "reject"
             THEN [threw |-> TRUE, dom |-> d]
             ELSE tryAfterText(path, body, d, loc)
        escapes == fetch = "ok" /\ body = "noclose"
    IN  [result |-> IF escapes THEN "rejected" ELSE "returned",
         dom |-> IF r.threw /\ ~escapes THEN catchBlock(r.dom) ELSE r.dom]

\* How a call that got past its fetch settles: fetch is the fetch outcome,
\* body the outcome of response.text() ("none" when it was never read).
handlePageLoadSettle(path, fetch, body, d, loc) ==
    LET r == IF fetch # "ok" \/ body = "reject"
             THEN [threw |-> TRUE, dom |-> d]
             ELSE tryAfterText(path, body, d, loc)
    IN  [result |-> "returned", dom |-> IF r.threw THEN catchBlock(r.dom) ELSE r.dom]

\* handlePageLoad up to its first await, for each path of loads in turn.
StartLoads(loads, origin) ==
    LET n == Len(loads)
    IN  /\ calls' = calls \o [i \in 1..n |-> [path |-> loads[i], origin |-> origin]]
        /\ IF mainPresent
           THEN /\ tasks' = tasks \cup {[id |-> Len(calls) + i, stage |-> "fetch"] : i \in 1..n}
                /\ fadeOut' = (fadeOut \/ n > 0)
                /\ lastDone' = lastDone
           ELSE /\ lastDone' = IF n = 0 THEN lastDone
                               ELSE Done(Len(calls) + n, "none", "none", "returned")
                /\ UNCHANGED <<tasks, fadeOut>>

\* Variant: a call that is not the newest one made drops its result.
Settle_DiscardStale(t, fetch, body) ==
    LET out == handlePageLoadSettle(calls[t.id].path, fetch, body, Dom, location)
        newest == t.id = Len(calls)
    IN  /\ tasks' = tasks \ {t}
        /\ lastDone' = Done(t.id, fetch, body, out.result)
        /\ title' = IF newest THEN out.dom.title ELSE title
        /\ html' = IF newest THEN out.dom.html ELSE html
        /\ fadeOut' = IF newest THEN out.dom.fadeOut ELSE fadeOut
        /\ header' = IF newest THEN out.dom.header ELSE header
        /\ footer' = IF newest THEN out.dom.footer ELSE footer
        /\ widgets' = IF newest
                      THEN widgetsAfterLoad(widgets, calls[t.id].path, fetch, body)
                      ELSE widgets

\* A suspended call settles and leaves the document as dom says.
Settle(t, fetch, body) ==
    LET out == handlePageLoadSettle(calls[t.id].path, fetch, body, Dom, location)
    IN  /\ tasks' = tasks \ {t}
        /\ lastDone' = Done(t.id, fetch, body, out.result)
        /\ title' = out.dom.title
        /\ html' = out.dom.html
        /\ fadeOut' = out.dom.fadeOut
        /\ header' = out.dom.header
        /\ footer' = out.dom.footer
        /\ widgets' = widgetsAfterLoad(widgets, calls[t.id].path, fetch, body)

\* await fetch(path) settles: a network error, a non-ok status, or ok.
FetchSettle(t, r) ==
    /\ t \in tasks /\ t.stage = "fetch"
    /\ IF r = "ok"
       THEN /\ tasks' = (tasks \ {t}) \cup {[t EXCEPT !.stage = "text"]}
            /\ UNCHANGED <<lastDone, title, html, fadeOut, header, footer, widgets>>
       ELSE Settle(t, r, "none")
    /\ UNCHANGED <<compStage, ready, mainPresent, location, history, histIdx,
                   calls, lastEvent, nEvents, initLog, nWidgetEvents>>

\* await response.text() settles: it rejects, or resolves with a document.
TextSettle(t, b) ==
    /\ t \in tasks /\ t.stage = "text"
    /\ Settle(t, "ok", b)
    /\ UNCHANGED <<compStage, ready, mainPresent, location, history, histIdx,
                   calls, lastEvent, nEvents, initLog, nWidgetEvents>>

----------------------------------------------------------------------------
(* init and loadComponents *)

\* load(url, elementId): await fetch(url) settles.
ComponentFetchSettle(c, r) ==
    /\ compStage[c] = "fetch"
    /\ compStage' = [compStage EXCEPT ![c] = IF r = "ok" THEN "text" ELSE "done"]
    /\ UNCHANGED <<ready, mainPresent, header, footer, html, fadeOut, title, location,
                   history, histIdx, tasks, calls, lastDone, lastEvent, nEvents,
                   initLog, widgets, nWidgetEvents>>

\* load(url, elementId): await response.text() settles.
ComponentTextSettle(c, ok) ==
    /\ compStage[c] = "text"
    /\ compStage' = [compStage EXCEPT ![c] = "done"]
    /\ header' = IF ok /\ c = "navbar" THEN NavbarFragment ELSE header
    /\ footer' = IF ok /\ c = "footer" THEN FooterFragment ELSE footer
    /\ UNCHANGED <<ready, mainPresent, html, fadeOut, title, location,
                   history, histIdx, tasks, calls, lastDone, lastEvent, nEvents,
                   initLog, widgets, nWidgetEvents>>

\* Variant: the callback runs as soon as one of the two loads has settled.
InitThen_AfterFirstLoad ==
    /\ ~ready
    /\ \E c \in Components : compStage[c] = "done"
    /\ ready' = TRUE
    /\ initLog' = initLog \o <<"setupRouter", "handlePageLoad", "setupCommonEventListeners">>
    /\ StartLoads(<<locationPath(location)>>, [kind |-> "init", path |-> Empty])
    /\ UNCHANGED <<compStage, mainPresent, header, footer, html, title, location,
                   history, histIdx, lastEvent, nEvents, widgets, nWidgetEvents>>

\* The .then callback of init(): setupRouter, the first handlePageLoad,
\* setupCommonEventListeners.
InitThen ==
    /\ ~ready
    /\ \A c \in Components : compStage[c] = "done"
    /\ ready' = TRUE
    /\ initLog' = initLog \o <<"setupRouter", "handlePageLoad", "setupCommonEventListeners">>
    /\ StartLoads(<<locationPath(location)>>, [kind |-> "init", path |-> Empty])
    /\ UNCHANGED <<compStage, mainPresent, header, footer, html, title, location,
                   history, histIdx, lastEvent, nEvents, widgets, nWidgetEvents>>

----------------------------------------------------------------------------
(* DOM events *)

\* A listener's effects applied to the window whose current entry is idx
\* and whose location is loc.
Dispatch(kind, click, state, effs, origin, idx, loc) ==
    LET w == Perform(effs, [prevented |-> FALSE, history |-> history, histIdx |-> idx,
                            location |-> loc, loads |-> <<>>])
    IN  /\ history' = w.history
        /\ histIdx' = w.histIdx
        /\ location' = w.location
        /\ StartLoads(w.loads, origin)
        /\ lastEvent' = [kind |-> kind, click |-> click, state |-> state,
                         prevented |-> w.prevented, trace |-> effs]
        /\ nEvents' = nEvents + 1
        /\ UNCHANGED <<compStage, ready, mainPresent, header, footer, html, title,
                       initLog, widgets, nWidgetEvents>>

\* The user clicks somewhere in the body.
Click(ev) ==
    /\ ready /\ nEvents < MaxEvents
    /\ Dispatch("click", ev, NullState, clickListener(ev, location),
                [kind |-> "click", path |-> Empty], histIdx, location)

\* The user goes back (delta = -1) or forward (delta = 1): the browser makes
\* the entry current and fires popstate with its state.
Traverse(delta) ==
    /\ ready /\ nEvents < MaxEvents
    /\ histIdx + delta \in 1..Len(history)
    /\ LET entry == history[histIdx + delta]
       IN  Dispatch("popstate", NoEvent.click, entry.state,
                    popstateListener(entry.state, entry.url),
                    [kind |-> "popstate", path |-> entry.state.path],
                    histIdx + delta, entry.url)

\* A popstate event dispatched on window with a given state.
DispatchPopState(state) ==
    /\ ready /\ nEvents < MaxEvents
    /\ Dispatch("popstate", NoEvent.click, state, popstateListener(state, location),
                [kind |-> "popstate", path |-> state.path], histIdx, location)

----------------------------------------------------------------------------
(* Widget events *)

\* A widget listener or timer callback ran and left the widgets as w.
WidgetEvent(kind, arg, w) ==
    /\ nWidgetEvents < MaxWidgetEvents
    /\ nWidgetEvents' = nWidgetEvents + 1
    /\ widgets' = [w EXCEPT !.last = [kind |-> kind, arg |-> arg]]
    /\ UNCHANGED <<compStage, ready, mainPresent, header, footer, html, fadeOut, title,
                   location, history, histIdx, tasks, calls, lastDone, lastEvent,
                   nEvents, initLog>>

\* The carousels whose elements are in the document.
AttachedCarousels == {k \in DOMAIN widgets.carousels : widgets.carousels[k].attached}

\* click on #next-testimonial: next(); resetInterval()
NextTestimonialClick ==
    \E k \in AttachedCarousels :
        /\ "next-testimonial" \in html.ids
        /\ WidgetEvent("next", k, [widgets EXCEPT !.carousels[k] = resetInterval(next(@))])

\* click on #prev-testimonial: prev(); resetInterval()
PrevTestimonialClick ==
    \E k \in AttachedCarousels :
        /\ "prev-testimonial" \in html.ids
        /\ WidgetEvent("prev", k, [widgets EXCEPT !.carousels[k] = resetInterval(prev(@))])

\* click on dot i
DotClick(i) ==
    \E k \in AttachedCarousels :
        /\ i \in DOMAIN widgets.carousels[k].dots
        /\ WidgetEvent("dot", k, [widgets EXCEPT !.carousels[k] = dotClickListener(@, i)])

\* The pointer enters #testimonial-carousel.
MouseEnter ==
    \E k \in AttachedCarousels :
        /\ ~widgets.carousels[k].hover
        /\ WidgetEvent("mouseenter", k,
                       [widgets EXCEPT !.carousels[k] = mouseenterListener(@)])

\* The pointer leaves #testimonial-carousel.
MouseLeave ==
    \E k \in AttachedCarousels :
        /\ widgets.carousels[k].hover
        /\ WidgetEvent("mouseleave", k,
                       [widgets EXCEPT !.carousels[k] = mouseleaveListener(@)])

\* An interval some carousel closure has set, in the document or not, fires
\* and calls next.
IntervalTick(k) ==
    /\ k \in DOMAIN widgets.carousels
    /\ widgets.carousels[k].nActive > 0
    /\ WidgetEvent("tick", k, [widgets EXCEPT !.carousels[k] = next(@)])

openModal(w) ==
    [w EXCEPT !.modal.classes = @ \ {"hidden"},
              !.bodyOverflow = "hidden",
              !.modal.lastAction = "open",
              !.timeouts = Append(@, [kind |-> "open", live |-> TRUE])]

closeModal(w) ==
    [w EXCEPT !.modal.classes = @ \cup {"opacity-0"},
              !.modal.panel = @ \cup {"scale-95"},
              !.modal.lastAction = "close",
              !.timeouts = Append(@, [kind |-> "close", live |-> TRUE])]

\* The callback of timeout t: it changes the modal it closed over, which
\* is the one of the document when t.live, and the body of the document.
timeoutCallback(w, t) ==
    IF t.kind = "open"
    THEN IF t.live
         THEN [w EXCEPT !.modal.classes = @ \ {"opacity-0"},
                        !.modal.panel = @ \ {"scale-95"}]
         ELSE w
    ELSE [w EXCEPT !.modal.classes = IF t.live THEN @ \cup {"hidden"} ELSE @,
                   !.bodyOverflow = "auto"]

\* click on #open-modal-btn
OpenModalClick ==
    /\ widgets.modal.present
    /\ WidgetEvent("open", 0, openModal(widgets))

\* click on #close-modal-btn or on the backdrop, or the form is submitted:
\* the three are parts of the modal and take no event while it is hidden.
CloseModalEvent ==
    /\ widgets.modal.present
    /\ "hidden" \notin widgets.modal.classes
    /\ WidgetEvent("close", 0, closeModal(widgets))

\* Timeout j is due before every timeout set before it that is still
\* pending: timers fire in the order of their due times.
mayFire(ts, j) == \A i \in 1..(j - 1) : Delay(ts[i].kind) > Delay(ts[j].kind)

Remove(seq, j) == SubSeq(seq, 1, j - 1) \o SubSeq(seq, j + 1, Len(seq))

\* A pending timeout of openModal or closeModal fires.
TimeoutFire(j) ==
    /\ j \in DOMAIN widgets.timeouts
    /\ mayFire(widgets.timeouts, j)
    /\ widgets' = [timeoutCallback(widgets, widgets.timeouts[j])
                      EXCEPT !.timeouts = Remove(widgets.timeouts, j),
                             !.last = [kind |-> "timeout", arg |-> 0]]
    /\ UNCHANGED <<compStage, ready, mainPresent, header, footer, html, fadeOut, title,
                   location, history, histIdx, tasks, calls, lastDone, lastEvent,
                   nEvents, initLog, nWidgetEvents>>

\* Variant: the answer clicked is toggled and the others are left alone.
faqClickListener_KeepOthers(f, i) ==
    [f EXCEPT !.maxHeight[i] = ~f.maxHeight[i]]

\* The click listener of #faq-accordion, for a click on question i.
faqClickListener(f, i) ==
    LET isOpening == ~f.maxHeight[i]
    IN  [f EXCEPT !.maxHeight = [j \in DOMAIN @ |-> (j = i /\ isOpening)]]

\* click on question i of the accordion
FaqClick(i) ==
    /\ widgets.faq.present
    /\ i \in DOMAIN widgets.faq.maxHeight
    /\ WidgetEvent("faq", i, [widgets EXCEPT !.faq = faqClickListener(@, i)])

----------------------------------------------------------------------------
(* Specification *)

InitialLocation ==
    [protocol |-> OwnProtocol, host |-> OwnHost, pathname |-> Slash,
     search |-> Empty, hash |-> Empty]

Init ==
    /\ compStage = [c \in Components |-> "fetch"]
    /\ ready = FALSE
    /\ mainPresent \in BOOLEAN
    /\ header = EmptyPlaceholder
    /\ footer = EmptyPlaceholder
    /\ html = InitialMarkup
    /\ fadeOut = FALSE
    /\ title = ShellTitle
    /\ location = InitialLocation
    /\ history = <<[state |-> NullState, url |-> InitialLocation]>>
    /\ histIdx = 1
    /\ tasks = {}
    /\ calls = <<>>
    /\ lastDone = NoDone
    /\ lastEvent = NoEvent
    /\ nEvents = 0
    /\ initLog = <<>>
    /\ widgets = NoWidgets
    /\ nWidgetEvents = 0

Next ==
    \/ \E c \in Components, r \in {"neterr", "notok", "ok"} : ComponentFetchSettle(c, r)
    \/ \E c \in Components, ok \in BOOLEAN : ComponentTextSettle(c, ok)
    \/ InitThen
    \/ \E ev \in Clicks : Click(ev)
    \/ \E delta \in {-1, 1} : Traverse(delta)
    \/ \E state \in EventStates : DispatchPopState(state)
    \/ \E t \in tasks, r \in {"neterr", "notok", "ok"} : FetchSettle(t, r)
    \/ \E t \in tasks, b \in Bodies \cup {"reject"} : TextSettle(t, b)

Spec == Init /\ [][Next]_vars

\* Navigation by in-site link clicks and back / forward steps only, none
\* started while a load is in flight, every page fetch answered ok with a
\* page whose widgets initialise.
NavClicks == {ev \in Clicks : ev.hasLink /\ ~isExternal(ev.link, InitialLocation)}

NextNav ==
    \/ \E c \in Components, r \in {"neterr", "notok", "ok"} : ComponentFetchSettle(c, r)
    \/ \E c \in Components, ok \in BOOLEAN : ComponentTextSettle(c, ok)
    \/ InitThen
    \/ \E ev \in NavClicks : tasks = {} /\ Click(ev)
    \/ \E delta \in {-1, 1} : tasks = {} /\ Traverse(delta)
    \/ \E t \in tasks : FetchSettle(t, "ok")
    \/ \E t \in tasks, b \in {"plain", "modal"} : TextSettle(t, b)

SpecNav == Init /\ [][NextNav]_vars

\* Plain clicks on the links to the two pages of the site.
PageClicks ==
    {[hasLink |-> TRUE, link |-> InSite(p, Empty, Empty), modifier |-> FALSE] :
        p \in {Slash, PathA}}

\* The site with pages that bring widgets: every fetch succeeds and a link
\* is clicked once the page before has loaded.
NextWidgets ==
    \/ \E c \in Components : ComponentFetchSettle(c, "ok")
    \/ \E c \in Components : ComponentTextSettle(c, TRUE)
    \/ InitThen
    \/ \E ev \in PageClicks : tasks = {} /\ Click(ev)
    \/ \E t \in tasks : FetchSettle(t, "ok")
    \/ \E t \in tasks, b \in WidgetBodies : TextSettle(t, b)
    \/ NextTestimonialClick
    \/ PrevTestimonialClick
    \/ \E i \in 0..(NumTestimonials - 1) : DotClick(i)
    \/ MouseEnter
    \/ MouseLeave
    \/ \E k \in 1..(MaxEvents + 1) : IntervalTick(k)
    \/ OpenModalClick
    \/ CloseModalEvent
    \/ \E j \in 1..(2 * MaxWidgetEvents) : TimeoutFire(j)
    \/ \E i \in 1..NumQuestions : FaqClick(i)

SpecWidgets == Init /\ [][NextWidgets]_vars

----------------------------------------------------------------------------
(* Steps, as the logs show them *)

ClickStep == nEvents' = nEvents + 1 /\ lastEvent'.kind = "click"

PopStateStep == nEvents' = nEvents + 1 /\ lastEvent'.kind = "popstate"

\* A handlePageLoad call settles in this step.
SettleStep == lastDone' # lastDone

\* The paths handlePageLoad is invoked with in this step, in order.
NewCallPaths ==
    [i \in 1..(Len(calls') - Len(calls)) |-> calls'[Len(calls) + i].path]

\* The path the call that settles in this step was made with.
SettledPath == calls[lastDone'.id].path

\* The positions in the trace of the last event where op was performed.
TracePositions(op) ==
    {i \in 1..Len(lastEvent'.trace) : lastEvent'.trace[i].op = op}

\* The links of a placeholder are those of before, each marked active exactly
\* when its pathname is the pathname of the location.
OnlyRemarked(before, after) ==
    /\ after.loaded = before.loaded
    /\ Len(after.links) = Len(before.links)
    /\ \A i \in 1..Len(before.links) :
        /\ after.links[i].pathname = before.links[i].pathname
        /\ after.links[i].active = (before.links[i].pathname = location.pathname)

\* This step is the widget event of the given kind.
WidgetStep(kind) == nWidgetEvents' = nWidgetEvents + 1 /\ widgets'.last.kind = kind

\* The carousel the widget event of this step was about, before and after.
CarouselBefore == widgets.carousels[widgets'.last.arg]
CarouselAfter == widgets'.carousels[widgets'.last.arg]

----------------------------------------------------------------------------
(* Claims *)

\* C1 (as stated): every click without modifier keys on an in-site link
\* (same protocol and host, target not _blank, not a same-page anchor) is
\* default-prevented and invokes handlePageLoad exactly once with the link's
\* pathname + search.
C1_EveryInSiteClickLoads ==
    [][(/\ ClickStep
        /\ lastEvent'.click.hasLink
        /\ ~lastEvent'.click.modifier
        /\ lastEvent'.click.link.target # "_blank"
        /\ lastEvent'.click.link.protocol = location.protocol
        /\ lastEvent'.click.link.host = location.host
        /\ ~(lastEvent'.click.link.hash # Empty
             /\ lastEvent'.click.link.pathname = location.pathname))
       => /\ lastEvent'.prevented
          /\ NewCallPaths = <<lastEvent'.click.link.pathname \o lastEvent'.click.link.search>>
      ]_vars

\* C1 (amended): such a click is default-prevented, and invokes
\* handlePageLoad exactly once with the link's pathname + search when that
\* differs from the location's pathname + search, and not at all when it is
\* equal to it.
C1_InSiteClickLoadsOtherPath ==
    [][(/\ ClickStep
        /\ lastEvent'.click.hasLink
        /\ ~lastEvent'.click.modifier
        /\ lastEvent'.click.link.target # "_blank"
        /\ lastEvent'.click.link.protocol = location.protocol
        /\ lastEvent'.click.link.host = location.host
        /\ ~(lastEvent'.click.link.hash # Empty
             /\ lastEvent'.click.link.pathname = location.pathname))
       => LET target == lastEvent'.click.link.pathname \o lastEvent'.click.link.search
          IN  /\ lastEvent'.prevented
              /\ NewCallPaths = IF target # location.pathname \o location.search
                                THEN <<target>> ELSE <<>>
      ]_vars

\* An intercepted click on a link with a query has started the load of
\* pathname + search.
C1_Witness ==
    /\ lastEvent.kind = "click" /\ lastEvent.click.hasLink /\ ~lastEvent.click.modifier
    /\ lastEvent.prevented
    /\ lastEvent.click.link.search # Empty
    /\ Len(calls) >= 2
    /\ calls[Len(calls)].origin.kind = "click"
    /\ calls[Len(calls)].path = lastEvent.click.link.pathname \o lastEvent.click.link.search

\* C2: a navigation started before another one and settling after it has its
\* result applied all the same: when the call that settled last was made
\* before a call that had already settled, and it got a page, the container
\* and the title are those of its page; nothing discards the stale result.
C2_StaleResultApplied ==
    (lastDone.stale /\ lastDone.fetch = "ok" /\ lastDone.body \in {"plain", "modal"})
    => /\ html.heading = "page"
       /\ html.page = calls[lastDone.id].path
       /\ title = <<"T">> \o calls[lastDone.id].path

\* Navigation A (the first load) settled after navigation B (a click made
\* while A was in flight): the container and title show A's page, the
\* location and the newest history entry are B's path.
C2_Witness ==
    /\ tasks = {}
    /\ lastDone.stale /\ lastDone.fetch = "ok" /\ lastDone.body = "plain"
    /\ html.page = calls[lastDone.id].path
    /\ title = <<"T">> \o calls[lastDone.id].path
    /\ locationPath(location) # calls[lastDone.id].path
    /\ histIdx = Len(history)
    /\ locationPath(history[histIdx].url) = locationPath(location)
    /\ \E j \in (lastDone.id + 1)..Len(calls) :
        calls[j].origin.kind = "click" /\ calls[j].path = locationPath(location)

C4_FetchFailureShowsFallback ==
    [][(SettleStep /\ lastDone'.fetch \in {"neterr", "notok"})
       => /\ html' = Fallback
          /\ html'.heading = "Erreur 404"
          /\ html'.hrefs = {<<"/">>}
          /\ ~fadeOut'
      ]_vars

\* A non-ok response and a network error have each been rendered as the
\* fallback view.
C4_Witness ==
    /\ lastDone.fetch \in {"neterr", "notok"}
    /\ html.heading = "Erreur 404"
    /\ ~fadeOut

\* C5: when a call gets an ok response whose document has no #main-content,
\* the container ends up showing the fallback view and the title, the header
\* and the footer are as before the call settled.
C5_MissingContainerLeavesRestAlone ==
    [][(SettleStep /\ lastDone'.fetch = "ok" /\ lastDone'.body = "nomain")
       => /\ html' = Fallback
          /\ title' = title
          /\ header' = header
          /\ footer' = footer
      ]_vars

\* C6: every handlePageLoad call returns normally, whatever the outcome of
\* the fetch, of reading the body, of the parse and of the widget
\* initialisation, and each of these failures leaves the fallback view in
\* the container.
C6_NeverThrows ==
    [][SettleStep
       => /\ lastDone'.result = "returned"
          /\ (\/ lastDone'.fetch \in {"neterr", "notok"}
              \/ lastDone'.body \in {"reject", "nomain", "noclose"})
             => html' = Fallback
      ]_vars

\* A call whose widget initialisation threw has returned, with the fallback
\* view in the container.
C6_Witness ==
    /\ lastDone.fetch = "ok" /\ lastDone.body = "noclose"
    /\ lastDone.result = "returned"
    /\ html = Fallback

\* C7: a click on a link with target _blank, or of another protocol or
\* host, or on a same-page anchor (the location's pathname and a non-empty
\* fragment) is not default-prevented, pushes no history entry and starts no
\* load.
C7_ExternalAndAnchorNotIntercepted ==
    [][(/\ ClickStep
        /\ lastEvent'.click.hasLink
        /\ \/ lastEvent'.click.link.target = "_blank"
           \/ lastEvent'.click.link.protocol # location.protocol
           \/ lastEvent'.click.link.host # location.host
           \/ /\ lastEvent'.click.link.pathname = location.pathname
              /\ lastEvent'.click.link.hash # Empty)
       => /\ ~lastEvent'.prevented
          /\ history' = history /\ histIdx' = histIdx /\ location' = location
          /\ calls' = calls /\ tasks' = tasks
      ]_vars

\* A click on a link to the location's pathname with a fragment (and another
\* query) was let through, after a navigation.
C7_Witness ==
    /\ lastEvent.kind = "click" /\ lastEvent.click.hasLink
    /\ lastEvent.click.link.hash # Empty
    /\ lastEvent.click.link.pathname = location.pathname
    /\ lastEvent.click.link.search # location.search
    /\ ~lastEvent.prevented
    /\ Len(history) = 2

\* C8: for an intercepted click, exactly when the link's pathname + search
\* differs from the location's, one history entry is pushed, with state
\* {path} and that path as its URL, before handlePageLoad is invoked with
\* that path; otherwise the history is unchanged and no load is started.
C8_PushThenLoad ==
    [][(ClickStep /\ lastEvent'.prevented)
       => LET target == lastEvent'.click.link.pathname \o lastEvent'.click.link.search
              pushes == TracePositions("pushState")
              loads == TracePositions("handlePageLoad")
          IN  IF target # location.pathname \o location.search
              THEN /\ Cardinality(pushes) = 1 /\ Cardinality(loads) = 1
                   /\ \A i \in pushes, j \in loads :
                       /\ i < j
                       /\ lastEvent'.trace[i].arg = target
                       /\ lastEvent'.trace[i].state
                            = [null |-> FALSE, hasPath |-> TRUE, path |-> target]
                       /\ lastEvent'.trace[j].arg = target
                   /\ histIdx' = histIdx + 1
                   /\ Len(history') = histIdx + 1
                   /\ SubSeq(history', 1, histIdx) = SubSeq(history, 1, histIdx)
                   /\ history'[histIdx'].state
                        = [null |-> FALSE, hasPath |-> TRUE, path |-> target]
                   /\ history'[histIdx'].url.pathname \o history'[histIdx'].url.search
                        = target
                   /\ history'[histIdx'].url.hash = Empty
                   /\ location' = history'[histIdx'].url
                   /\ NewCallPaths = <<target>>
              ELSE /\ pushes = {} /\ loads = {}
                   /\ history' = history /\ histIdx' = histIdx /\ location' = location
                   /\ calls' = calls /\ tasks' = tasks
      ]_vars

\* An intercepted click pushed the entry for a path with a query and then
\* started its load.
C8_Witness ==
    /\ lastEvent.kind = "click" /\ lastEvent.prevented
    /\ Len(lastEvent.trace) = 3
    /\ lastEvent.trace[2].op = "pushState"
    /\ lastEvent.trace[3].op = "handlePageLoad"
    /\ histIdx = Len(history) /\ histIdx >= 2
    /\ history[histIdx].state = PathState(PathA \o QueryQ)
    /\ locationPath(location) = PathA \o QueryQ

\* C9: a popstate event with state {path: x} invokes handlePageLoad once,
\* with x, and when that call settles the container and the title are those
\* a call handlePageLoad(x) leaves for the same responses from the same
\* document.
C9_PopStateIsHandlePageLoad ==
    [][/\ (PopStateStep /\ ~lastEvent'.state.null /\ lastEvent'.state.hasPath
           /\ lastEvent'.state.path # Empty)
          => NewCallPaths = <<lastEvent'.state.path>>
       /\ (SettleStep /\ calls'[lastDone'.id].origin.kind = "popstate")
          => IF lastDone'.fetch = "none"
             THEN html' = html /\ title' = title
             ELSE LET direct == handlePageLoadSettle(calls'[lastDone'.id].origin.path,
                                                     lastDone'.fetch, lastDone'.body,
                                                     Dom, location)
                  IN  html' = direct.dom.html /\ title' = direct.dom.title
      ]_vars

\* A call started by a popstate event with state {path: x}, x not the path of
\* the location, has rendered the page of x.
C9_Witness ==
    /\ lastDone.id > 0
    /\ calls[lastDone.id].origin.kind = "popstate"
    /\ lastDone.fetch = "ok" /\ lastDone.body = "plain"
    /\ html.heading = "page"
    /\ html.page = calls[lastDone.id].origin.path
    /\ html.page # locationPath(location)

\* C10: a popstate event whose state is null or has no path starts no load
\* and leaves the container, the title and the history entries unchanged.
C10_PopStateWithoutPathIgnored ==
    [][(PopStateStep /\ (lastEvent'.state.null \/ ~lastEvent'.state.hasPath))
       => /\ calls' = calls /\ tasks' = tasks /\ lastDone' = lastDone
          /\ html' = html /\ fadeOut' = fadeOut /\ title' = title
          /\ history' = history
      ]_vars

\* The user went back to the entry the site was opened on, whose state is
\* null: no load was started for it.
C10_Witness ==
    /\ lastEvent.kind = "popstate" /\ lastEvent.state.null
    /\ histIdx = 1 /\ Len(history) = 2
    /\ Len(calls) = 2

\* C12: a fragment fetch that fails (network error or non-ok status) leaves
\* both placeholders as they were; the callback of init() runs only once
\* both loads have settled, is not blocked by their outcomes, and runs
\* setupRouter, handlePageLoad of the location's pathname + search and
\* setupCommonEventListeners exactly once each.
C12_InitRunsOnceAfterBothLoads ==
    /\ []((ready <=> initLog # <<>>)
          /\ (((\A c \in Components : compStage[c] = "done") /\ initLog = <<>>)
              => ENABLED InitThen))
    /\ [][/\ \A c \in Components :
               (compStage[c] = "fetch" /\ compStage'[c] = "done")
               => (header' = header /\ footer' = footer /\ initLog' = initLog)
          /\ (initLog' # initLog)
             => /\ \A c \in Components : compStage[c] = "done"
                /\ initLog = <<>>
                /\ initLog' = <<"setupRouter", "handlePageLoad",
                                "setupCommonEventListeners">>
                /\ NewCallPaths = <<location.pathname \o location.search>>
         ]_vars

\* The navbar fragment was not loaded, the footer fragment was, and the
\* callback of init() has run its three calls.
C12_Witness ==
    /\ \A c \in Components : compStage[c] = "done"
    /\ ~header.loaded /\ header = EmptyPlaceholder
    /\ footer.loaded
    /\ initLog = <<"setupRouter", "handlePageLoad", "setupCommonEventListeners">>
    /\ Len(calls) = 1 /\ calls[1].origin.kind = "init" /\ calls[1].path = <<"/">>

\* C13: with the fallback view displayed after a failed navigation, a click
\* on its home link (href "/") starts a load of "/", whatever the location.
C13_HomeLinkAlwaysLoads ==
    [][(/\ ClickStep
        /\ html = Fallback /\ lastDone.id > 0
        /\ lastEvent'.click.hasLink
        /\ lastEvent'.click.link
             = [target |-> "", protocol |-> location.protocol, host |-> location.host,
                pathname |-> <<"/">>, search |-> <<>>, hash |-> <<>>])
       => NewCallPaths = <<(<<"/">>)>>
      ]_vars

\* C14: in every quiescent state of a run of non-overlapping in-site clicks
\* and back / forward steps whose fetches all succeed, the container shows
\* the page of the location's pathname + search.
C14_ContentMatchesLocation ==
    (mainPresent /\ ready /\ tasks = {})
    => /\ html.heading = "page"
       /\ html.page = location.pathname \o location.search

\* C11: in the testimonial carousel of N cards, a click on next and a tick of
\* the auto-scroll interval take currentIndex to currentIndex + 1, and to 0
\* from N - 1; a click on prev takes it to currentIndex - 1, and to N - 1
\* from 0; and after any sequence of next, prev, dot and interval events
\* currentIndex is in 0..N-1.
C11_IndexCyclesModuloN ==
    /\ [](\A k \in DOMAIN widgets.carousels :
            widgets.carousels[k].currentIndex \in 0..(NumTestimonials - 1))
    /\ [][/\ (WidgetStep("next") \/ WidgetStep("tick")) =>
                CarouselAfter.currentIndex =
                    IF CarouselBefore.currentIndex = NumTestimonials - 1 THEN 0
                    ELSE CarouselBefore.currentIndex + 1
          /\ WidgetStep("prev") =>
                CarouselAfter.currentIndex =
                    IF CarouselBefore.currentIndex = 0 THEN NumTestimonials - 1
                    ELSE CarouselBefore.currentIndex - 1]_vars

\* prev has wrapped from 0 to N - 1, and next from N - 1 to 0 after it.
C11_Witness ==
    /\ widgets.last.kind = "next"
    /\ nWidgetEvents = 2
    /\ \E k \in DOMAIN widgets.carousels :
        /\ widgets.last.arg = k
        /\ widgets.carousels[k].currentIndex = 0
        /\ widgets.carousels[k].dots = <<>>

\* C15: at any time at most one auto-scroll interval of the carousel is
\* scheduled, whatever mouseenter, mouseleave, next, prev and dot events and
\* page loads that run initTestimonialCarousel again came before.
C15_AtMostOneInterval ==
    /\ \A k \in DOMAIN widgets.carousels : widgets.carousels[k].nActive <= 1
    /\ \A k1, k2 \in DOMAIN widgets.carousels :
        (widgets.carousels[k1].nActive > 0 /\ widgets.carousels[k2].nActive > 0) => k1 = k2

\* C16: once every pending timeout has fired, the inscription modal is as
\* the last open or close action left it: after an open it has no 'hidden'
\* class and the body's overflow is 'hidden'; after a close it has the
\* 'hidden' class and the body's overflow is 'auto'.
C16_ModalMatchesLastAction ==
    (widgets.modal.present /\ widgets.timeouts = <<>>) =>
        /\ widgets.modal.lastAction = "open" =>
            ("hidden" \notin widgets.modal.classes /\ widgets.bodyOverflow = "hidden")
        /\ widgets.modal.lastAction = "close" =>
            ("hidden" \in widgets.modal.classes /\ widgets.bodyOverflow = "auto")

\* C17: in the FAQ accordion at most one answer has a max-height, after any
\* sequence of clicks on questions: a click on a question whose answer has
\* none gives it one and takes it from every other answer, and a click on
\* the question whose answer has one leaves no answer with one.
C17_AtMostOneAnswerOpen ==
    /\ [](\A i, j \in DOMAIN widgets.faq.maxHeight :
            (widgets.faq.maxHeight[i] /\ widgets.faq.maxHeight[j]) => i = j)
    /\ [][WidgetStep("faq") =>
            LET q == widgets'.last.arg
                wasOpen == widgets.faq.maxHeight[q]
            IN  \A j \in DOMAIN widgets'.faq.maxHeight :
                    widgets'.faq.maxHeight[j] <=> (j = q /\ ~wasOpen)]_vars

\* A second question has been clicked while the answer of another one was
\* open: its answer is open and it is the only one.
C17_Witness ==
    /\ widgets.faq.present
    /\ widgets.last = [kind |-> "faq", arg |-> 2]
    /\ nWidgetEvents = 2
    /\ nEvents = 0
    /\ widgets.faq.maxHeight[2]
    /\ ~widgets.faq.maxHeight[1]

\* C18: after every showTestimonial call exactly one card of the carousel
\* has the 'active' class, the card at currentIndex; every card has exactly
\* one of the classes active, prev, next, hidden-prev, hidden-next; and
\* exactly one dot is active, the dot at currentIndex.
C18_OneActiveCardAndDot ==
    \A k \in DOMAIN widgets.carousels :
        LET c == widgets.carousels[k]
        IN  /\ {i \in DOMAIN c.cards : "active" \in c.cards[i]} = {c.currentIndex}
            /\ \A i \in DOMAIN c.cards :
                Cardinality(c.cards[i] \cap PositionClasses) = 1
            /\ {i \in DOMAIN c.dots : "active" \in c.dots[i]} = {c.currentIndex}

\* C18, amended: the cards are as C18 says; when the page has a
\* #testimonial-dots element exactly one dot is active, the dot at
\* currentIndex, and when it has none the carousel has no dot at all.
C18_OneActiveCardAndDotIfDots ==
    \A k \in DOMAIN widgets.carousels :
        LET c == widgets.carousels[k]
        IN  /\ {i \in DOMAIN c.cards : "active" \in c.cards[i]} = {c.currentIndex}
            /\ \A i \in DOMAIN c.cards :
                Cardinality(c.cards[i] \cap {"active", "prev", "next",
                                             "hidden-prev", "hidden-next"}) = 1
            /\ \/ c.dots = <<>>
               \/ /\ DOMAIN c.dots = DOMAIN c.cards
                  /\ {i \in DOMAIN c.dots : "active" \in c.dots[i]} = {c.currentIndex}
            /\ c.attached => (c.dots = <<>> <=> "testimonial-dots" \notin html.ids)

\* A carousel with dots and one without have both been moved off card 0.
C18_Witness ==
    /\ Len(widgets.carousels) = 2
    /\ widgets.carousels[1].dots # <<>>
    /\ widgets.carousels[2].dots = <<>>
    /\ widgets.carousels[1].currentIndex = 2
    /\ widgets.carousels[2].currentIndex = NumTestimonials - 1
    /\ widgets.carousels[2].attached

====
